---- MODULE Spec2Model ----
(***************************************************************************)
(* The document-to-point ingestion pipeline of the notebooks in            *)
(* exploring-qdrant: the collection cells (create_collection,              *)
(* get_collections, delete_collection, get_collection), the Embedder       *)
(* get_text_embedding and the Point Builder & Writer                       *)
(* add_data_to_collection.  The vector storage service and the embedding   *)
(* provider are external: the provider's answer is an input of each        *)
(* embedding step, the storage service is a keyed store of points per      *)
(* collection.                                                             *)
(***************************************************************************)
EXTENDS Integers, Sequences, FiniteSets, TLC

VARIABLES
    collections,     \* the storage service: collection name -> [vectors_config, points]
    last,            \* outcome of the last collection cell (create / delete), or NoCell
    uuids,           \* number of uuid.uuid4() values generated so far
    pc,              \* position inside add_data_to_collection
    data,            \* argument `data` of the running / last invocation
    collection_name, \* argument `collection_name`
    k,               \* index in data of the loop's current `item`
    text_id,         \* local text_id of the current item
    summary_vector,  \* local summary_vector of the current item
    points,          \* local list `points`
    calls,           \* texts handed to get_text_embedding in this invocation, in order
    provider_error,  \* failure the embedding provider answered with in this invocation
    sent,            \* upsert requests issued by this invocation
    operation_info,  \* status of the UpdateResult returned by upsert
    printed,         \* lines printed by this invocation
    exc,             \* exception that left add_data_to_collection
    hist,            \* bookkeeping across invocations: point counts and re-run flags
    diag             \* what the last diagnostic cell (token count, length check) put out

vars == <<collections, last, uuids, pc, data, collection_name, k, text_id,
          summary_vector, points, calls, provider_error, sent, operation_info,
          printed, exc, hist, diag>>

pipeline == <<pc, data, collection_name, k, text_id, summary_vector, points,
              calls, provider_error, sent, operation_info, printed, exc, hist>>

-----------------------------------------------------------------------------
(* Bounds of the model *)

\* longest `data` list handed to add_data_to_collection
MaxRecords == 2
\* number of uuid4 values the model generates in one behaviour
MaxIds == 3
\* number of identifiers of the points handed to the Writer directly
MaxWriterIds == 2
\* longest batch handed to the Writer directly
MaxWriterBatch == 1

-----------------------------------------------------------------------------
(* Values *)

\* Python's None, a token distinct from every text of the dataset
NoneValue == "None"

\* no collection cell ran last; held: the points the cell's collection held
NoCell == [op |-> "none", name |-> "none", out |-> "none", held |-> 0]

\* number of elements of a text-embedding-3-large vector
EmbeddingDim == 3072
\* size declared for the slot "chunk" of arxiv_chunks
ChunkSlotSize == 3072
\* size declared for the slot "summary" of arxiv_chunks
SummarySlotSize == 3072
\* size declared for the single vector of p_rag_series_1
FirstCollectionSize == 1536

DefaultModel == "text-embedding-3-large"
\* a default left at the name of the first notebook's collection
DefaultCollectionFirst == "p_rag_series_1"
DefaultCollection == "arxiv_chunks"
CollectionNames == {"p_rag_series_1", "arxiv_chunks"}

\* name under which a collection with one unnamed vector keeps it
UnnamedVector == ""

SuccessMessage == "Data inserted successfully!"
FailureMessage == "Failed to insert data"

\* keys the docstring of add_data_to_collection asks of every dictionary
RequiredFields == {"summary", "chunk", "title", "source", "authors"}

\* failures of the embedding provider
ProviderErrors == {"RateLimited", "AuthError", "UpstreamError"}

\* rows of the dataset: two complete rows (with a column the pipeline does not
\* read) and two fault-injected rows, one without "summary", one without "title"
RowA ==
    [summary |-> "s1", chunk |-> "c1", title |-> "t1", source |-> "u1",
     authors |-> <<"a1", "a2">>, doi |-> "d1"]
RowB ==
    [summary |-> "s2", chunk |-> "c2", title |-> "t2", source |-> "u2",
     authors |-> <<"a3">>, doi |-> "d2"]
RowNoSummary ==
    [chunk |-> "c3", title |-> "t3", source |-> "u3", authors |-> <<"a1">>]
RowNoTitle ==
    [summary |-> "s4", chunk |-> "c4", source |-> "u4", authors |-> <<"a2">>]

Dataset == {RowA, RowB, RowNoSummary, RowNoTitle}

DataLists == UNION {[1..n -> Dataset] : n \in 0..MaxRecords}

-----------------------------------------------------------------------------
(* The storage service, as the notebooks use it *)

NoPoints == [id \in {} |-> NoneValue]

\* the size of the first notebook's collection pasted into both slots
VectorsConfigFirstSize(name) ==
    [s \in (IF name = "p_rag_series_1" THEN {UnnamedVector}
            ELSE {"chunk", "summary"}) |->
        [size |-> FirstCollectionSize, distance |-> "Cosine"]]

\* vectors_config of the two create_collection cells
VectorsConfig(name) ==
    IF name = "p_rag_series_1"
    THEN [s \in {UnnamedVector} |->
            [size |-> FirstCollectionSize, distance |-> "Cosine"]]
    ELSE [chunk   |-> [size |-> ChunkSlotSize, distance |-> "Cosine"],
          summary |-> [size |-> SummarySlotSize, distance |-> "Cosine"]]

\* createCollection: a new, empty collection with the declared slots
ServiceCreate(colls, name, config) ==
    [n \in DOMAIN colls \cup {name} |->
        IF n = name THEN [vectors_config |-> config, points |-> NoPoints]
        ELSE colls[n]]

\* a create that answers True for any name, replacing what the name held
ServiceCreateAnswerOverwrites(colls, name) == "True"

\* createCollection's answer: a name in use is refused with AlreadyExists
ServiceCreateAnswer(colls, name) ==
    IF name \in DOMAIN colls THEN "AlreadyExists" ELSE "True"

\* a delete that answers without dropping anything
ServiceDeleteKeeps(colls, name) == colls

\* deleteCollection: the collection and every point it holds are dropped
ServiceDelete(colls, name) ==
    [n \in DOMAIN colls \ {name} |-> colls[n]]

\* get_collections(): the names of the collections that exist
GetCollections == DOMAIN collections

\* get_collection(name): the descriptor, with the slots and the point count
GetCollection(name) ==
    [vectors      |-> collections[name].vectors_config,
     points_count |-> Cardinality(DOMAIN collections[name].points)]

\* points_count of a collection, 0 while it does not exist
PointsCount(name) ==
    IF name \in GetCollections THEN GetCollection(name).points_count ELSE 0

\* storage accepts a point only with a vector of the declared size in every
\* declared slot, and in no other
Accepts(config, point) ==
    /\ DOMAIN point.vector = DOMAIN config
    /\ \A s \in DOMAIN config : point.vector[s].len = config[s].size

BatchIds(batch) == {batch[j].id : j \in 1..Len(batch)}

\* the point of the batch that ends up stored under id: the last one with it
LastWithId(batch, id) ==
    batch[CHOOSE j \in 1..Len(batch) :
            /\ batch[j].id = id
            /\ \A m \in (j+1)..Len(batch) : batch[m].id # id]

\* an upsert that removes the stored point with the identifier and forgets to
\* put the new one in its place
UpsertPointsDropsExisting(stored, batch) ==
    [id \in (DOMAIN stored \ BatchIds(batch))
            \cup (BatchIds(batch) \ DOMAIN stored) |->
        IF id \in BatchIds(batch) THEN LastWithId(batch, id) ELSE stored[id]]

\* an upsert that writes the last point of the batch alone
UpsertPointsLastOnly(stored, batch) ==
    IF batch = <<>> THEN stored
    ELSE [id \in DOMAIN stored \cup {batch[Len(batch)].id} |->
            IF id = batch[Len(batch)].id THEN batch[Len(batch)]
            ELSE stored[id]]

\* an upsert that merges: keys of the stored payload and vector mapping that
\* the new point does not have survive
UpsertPointsMerges(stored, batch) ==
    [id \in DOMAIN stored \cup BatchIds(batch) |->
        IF id \notin BatchIds(batch) THEN stored[id]
        ELSE IF id \notin DOMAIN stored THEN LastWithId(batch, id)
        ELSE LET old == stored[id]
                 new == LastWithId(batch, id)
             IN [id |-> id,
                 vector |-> [s \in DOMAIN old.vector \cup DOMAIN new.vector |->
                               IF s \in DOMAIN new.vector THEN new.vector[s]
                               ELSE old.vector[s]],
                 payload |-> [f \in DOMAIN old.payload \cup DOMAIN new.payload |->
                               IF f \in DOMAIN new.payload THEN new.payload[f]
                               ELSE old.payload[f]]]]

\* upsert: a point replaces the stored point with its identifier, or is added
UpsertPoints(stored, batch) ==
    [id \in DOMAIN stored \cup BatchIds(batch) |->
        IF id \in BatchIds(batch) THEN LastWithId(batch, id) ELSE stored[id]]

\* the service rejects the whole request: the collection does not exist, or a
\* point of the batch is not accepted
Rejects(colls, name, batch) ==
    \/ name \notin DOMAIN colls
    \/ \E j \in 1..Len(batch) : ~Accepts(colls[name].vectors_config, batch[j])

\* the points of batch at the positions in S, in order
SubBatch(batch, S) ==
    LET F[j \in 0..Len(batch)] ==
            IF j = 0 THEN <<>>
            ELSE IF j \in S THEN Append(F[j-1], batch[j]) ELSE F[j-1]
    IN F[Len(batch)]

\* the collections once the points of batch at the positions in S are committed
Commit(colls, name, batch, S) ==
    [colls EXCEPT ![name].points = UpsertPoints(@, SubBatch(batch, S))]

-----------------------------------------------------------------------------
(* Tokenization *)

\* token counts the notebook prints for example_text and more_example_text
ExampleTokens == 59
MoreExampleTokens == 23

DiagTexts == {"example_text", "more_example_text"}

\* len(tiktoken.get_encoding("cl100k_base").encode(text))
Cl100kBaseLen(text) ==
    IF text = "example_text" THEN ExampleTokens ELSE MoreExampleTokens

\* num_tokens_from_string(string)
num_tokens_from_string(string) == Cl100kBaseLen(string)

-----------------------------------------------------------------------------
(* The Embedder *)

\* a provider whose vectors have one entry per token of the text
ProviderEmbeddingPerToken(text, model) ==
    [model |-> model, input |-> text,
     len |-> IF text \in DiagTexts THEN Cl100kBaseLen(text) ELSE EmbeddingDim]

\* a provider whose vectors have the size of the first notebook's collection
ProviderEmbeddingSmall(text, model) ==
    [model |-> model, input |-> text, len |-> FirstCollectionSize]

\* openai_client.embeddings.create(input, model).data[0].embedding: a vector
\* of the model's size that depends on the text
ProviderEmbedding(text, model) ==
    [model |-> model, input |-> text, len |-> EmbeddingDim]

NoVector == [model |-> NoneValue, input |-> NoneValue, len |-> 0]

\* a handler that swallows the provider's failure and returns an empty list
get_text_embedding_swallows(text, answer) ==
    IF answer = "ok"
    THEN [raised |-> FALSE, value |-> ProviderEmbedding(text, DefaultModel),
          errors |-> {}]
    ELSE [raised |-> FALSE, value |-> NoVector, errors |-> {}]

\* get_text_embedding(text): the provider's vector, or an exception.  The
\* handler names OpenAIError as an attribute of the client object: the
\* exception that leaves is the provider's, re-raised, or the AttributeError
\* of that lookup.
get_text_embedding(text, answer) ==
    IF answer = "ok"
    THEN [raised |-> FALSE, value |-> ProviderEmbedding(text, DefaultModel),
          errors |-> {}]
    ELSE [raised |-> TRUE, value |-> NoVector,
          errors |-> {answer, "AttributeError"}]

-----------------------------------------------------------------------------
(* The Point Builder *)

\* item.get(key)
ItemGet(item, key) == IF key \in DOMAIN item THEN item[key] ELSE NoneValue

\* an identifier that is the same for every record
Uuid4Fixed(n) == 1

\* str(uuid.uuid4()): a value no earlier call returned; values are named in
\* the order of their generation
Uuid4(n) == n + 1

\* a vector_dict without the chunk vector
VectorDictSummaryOnly(sv, cv) == [summary |-> sv]

\* vector_dict
VectorDict(sv, cv) == [summary |-> sv, chunk |-> cv]

\* a payload that copies the whole record and adds the identifier
PayloadCopiesRecord(id, item) ==
    [f \in DOMAIN item \cup {"text_id"} |->
        IF f = "text_id" THEN id ELSE item[f]]

\* a payload with the two texts under each other's key
PayloadSwapsTexts(id, item) ==
    [text_id |-> id,
     title   |-> ItemGet(item, "title"),
     source  |-> ItemGet(item, "source"),
     authors |-> ItemGet(item, "authors"),
     chunk   |-> ItemGet(item, "summary"),
     summary |-> ItemGet(item, "chunk")]

\* payload
Payload(id, item) ==
    [text_id |-> id,
     title   |-> ItemGet(item, "title"),
     source  |-> ItemGet(item, "source"),
     authors |-> ItemGet(item, "authors"),
     chunk   |-> ItemGet(item, "chunk"),
     summary |-> ItemGet(item, "summary")]

PointStruct(id, vector, payload) ==
    [id |-> id, vector |-> vector, payload |-> payload]

\* a list that takes the new point at its front
PointsPrepend(list, point) == <<point>> \o list

\* points.append(point)
PointsAppend(list, point) == Append(list, point)

\* any returned status taken for success
StatusMessageAlwaysSuccess(status) == SuccessMessage

\* the if / else on operation_info.status
StatusMessage(status) ==
    IF status = "COMPLETED" THEN SuccessMessage ELSE FailureMessage

-----------------------------------------------------------------------------
(* State *)

NoDiag ==
    [op |-> "none", text |-> "none", tokens |-> 0, len |-> 0, raised |-> FALSE]

NoHist ==
    [before |-> 0, base |-> 0, rerun |-> FALSE, retry |-> FALSE,
     replaced |-> FALSE]

\* the kernel runs one cell at a time: a cell starts only when no invocation
\* of add_data_to_collection is under way
KernelIdle == pc \in {"idle", "done", "raised"}

\* no invocation of add_data_to_collection to speak of
PipelineIdle ==
    /\ pc' = "idle"
    /\ data' = <<>>
    /\ collection_name' = DefaultCollection
    /\ k' = 0
    /\ text_id' = 0
    /\ summary_vector' = NoVector
    /\ points' = <<>>
    /\ calls' = <<>>
    /\ provider_error' = NoneValue
    /\ sent' = <<>>
    /\ operation_info' = NoneValue
    /\ printed' = <<>>
    /\ exc' = NoneValue
    /\ hist' = NoHist

\* a fresh cluster: get_collections() answers with no collection
Init ==
    /\ collections = [n \in {} |-> NoneValue]
    /\ last = NoCell
    /\ uuids = 0
    /\ pc = "idle"
    /\ data = <<>>
    /\ collection_name = DefaultCollection
    /\ k = 0
    /\ text_id = 0
    /\ summary_vector = NoVector
    /\ points = <<>>
    /\ calls = <<>>
    /\ provider_error = NoneValue
    /\ sent = <<>>
    /\ operation_info = NoneValue
    /\ printed = <<>>
    /\ exc = NoneValue
    /\ hist = NoHist
    /\ diag = NoDiag

-----------------------------------------------------------------------------
(* The collection cells *)

\* client.create_collection(collection_name=name, vectors_config=...)
CreateCollection(name) ==
    /\ KernelIdle
    /\ IF ServiceCreateAnswer(collections, name) = "AlreadyExists"
       THEN /\ last' = [op |-> "create_collection", name |-> name,
                        out |-> "AlreadyExists", held |-> PointsCount(name)]
            /\ UNCHANGED collections
       ELSE /\ last' = [op |-> "create_collection", name |-> name,
                        out |-> "True", held |-> 0]
            /\ collections' = ServiceCreate(collections, name, VectorsConfig(name))
    /\ PipelineIdle
    /\ diag' = NoDiag
    /\ UNCHANGED uuids

\* client.delete_collection(collection_name=name), of a collection that exists
DeleteCollection(name) ==
    /\ KernelIdle
    /\ name \in GetCollections
    /\ last' = [op |-> "delete_collection", name |-> name, out |-> "True",
                 held |-> PointsCount(name)]
    /\ collections' = ServiceDelete(collections, name)
    /\ PipelineIdle
    /\ diag' = NoDiag
    /\ UNCHANGED uuids

-----------------------------------------------------------------------------
(* add_data_to_collection(data) *)

\* the previous invocation ran on the same data and was acknowledged
IsRerun(d) == pc = "done" /\ operation_info = "COMPLETED" /\ d = data

\* the previous invocation ran on the same data and its write ended with a
\* status other than COMPLETED
IsRetry(d) == pc = "done" /\ operation_info # "COMPLETED" /\ d = data

\* the call, with the default client and collection name; points = []
AddDataCall(d) ==
    /\ KernelIdle
    /\ uuids + Len(d) <= MaxIds
    /\ pc' = "loop"
    /\ data' = d
    /\ collection_name' = DefaultCollection
    /\ k' = 1
    /\ text_id' = 0
    /\ summary_vector' = NoVector
    /\ points' = <<>>
    /\ calls' = <<>>
    /\ provider_error' = NoneValue
    /\ sent' = <<>>
    /\ operation_info' = NoneValue
    /\ printed' = <<>>
    /\ exc' = NoneValue
    /\ hist' = [before |-> PointsCount(DefaultCollection),
                base   |-> IF IsRetry(d)
                           THEN (IF hist.retry THEN hist.base ELSE hist.before)
                           ELSE PointsCount(DefaultCollection),
                rerun  |-> IsRerun(d),
                retry  |-> IsRetry(d),
                replaced |-> FALSE]
    /\ last' = NoCell
    /\ diag' = NoDiag
    /\ UNCHANGED <<collections, uuids>>

\* a loop that takes the title out of the record (item.pop) as it reads it
ForItemPops ==
    /\ pc = "loop"
    /\ k <= Len(data)
    /\ text_id' = Uuid4(uuids)
    /\ uuids' = uuids + 1
    /\ pc' = "embed_summary"
    /\ data' = [data EXCEPT ![k] =
                  [f \in DOMAIN data[k] \ {"title"} |-> data[k][f]]]
    /\ UNCHANGED <<collections, last, collection_name, k, summary_vector,
                   points, calls, provider_error, sent, operation_info,
                   printed, exc, hist, diag>>

\* a loop that draws the identifier once, for the first record, and uses it
\* for every record of the call
ForItemOneIdPerCall ==
    /\ pc = "loop"
    /\ k <= Len(data)
    /\ text_id' = IF k = 1 THEN Uuid4(uuids) ELSE text_id
    /\ uuids' = uuids + 1
    /\ pc' = "embed_summary"
    /\ UNCHANGED <<collections, last, data, collection_name, k, summary_vector,
                   points, calls, provider_error, sent, operation_info,
                   printed, exc, hist,
                   diag>>

\* for item in data: text_id = str(uuid.uuid4()) and the five item.get
ForItem ==
    /\ pc = "loop"
    /\ k <= Len(data)
    /\ text_id' = Uuid4(uuids)
    /\ uuids' = uuids + 1
    /\ pc' = "embed_summary"
    /\ UNCHANGED <<collections, last, data, collection_name, k, summary_vector,
                   points, calls, provider_error, sent, operation_info,
                   printed, exc, hist,
                   diag>>

\* a loop that embeds the chunk first, in the place of the summary
EmbedSummaryTakesChunk ==
    /\ pc = "embed_summary"
    /\ \E answer \in {"ok"} \cup ProviderErrors :
        LET summary == ItemGet(data[k], "chunk")
            r == get_text_embedding(summary, answer)
        IN /\ calls' = Append(calls, summary)
           /\ provider_error' = IF answer = "ok" THEN provider_error ELSE answer
           /\ IF r.raised
              THEN /\ \E e \in r.errors : exc' = e
                   /\ pc' = "raised"
                   /\ UNCHANGED summary_vector
              ELSE /\ summary_vector' = r.value
                   /\ pc' = "embed_chunk"
                   /\ UNCHANGED exc
    /\ UNCHANGED <<collections, last, uuids, data, collection_name, k, text_id,
                   points, sent, operation_info, printed, hist,
                   diag>>

\* summary_vector = get_text_embedding(summary)
EmbedSummary ==
    /\ pc = "embed_summary"
    /\ \E answer \in {"ok"} \cup ProviderErrors :
        LET summary == ItemGet(data[k], "summary")
            r == get_text_embedding(summary, answer)
        IN /\ calls' = Append(calls, summary)
           /\ provider_error' = IF answer = "ok" THEN provider_error ELSE answer
           /\ IF r.raised
              THEN /\ \E e \in r.errors : exc' = e
                   /\ pc' = "raised"
                   /\ UNCHANGED summary_vector
              ELSE /\ summary_vector' = r.value
                   /\ pc' = "embed_chunk"
                   /\ UNCHANGED exc
    /\ UNCHANGED <<collections, last, uuids, data, collection_name, k, text_id,
                   points, sent, operation_info, printed, hist,
                   diag>>


\* a loop that writes each point to the collection as soon as it is built
EmbedChunkUpsertsEach ==
    /\ pc = "embed_chunk"
    /\ \E answer \in {"ok"} \cup ProviderErrors :
        LET chunk == ItemGet(data[k], "chunk")
            r == get_text_embedding(chunk, answer)
            point == PointStruct(text_id, VectorDict(summary_vector, r.value),
                                 Payload(text_id, data[k]))
        IN /\ calls' = Append(calls, chunk)
           /\ provider_error' = IF answer = "ok" THEN provider_error ELSE answer
           /\ IF r.raised
              THEN /\ \E e \in r.errors : exc' = e
                   /\ pc' = "raised"
                   /\ UNCHANGED <<points, k, collections>>
              ELSE /\ points' = PointsAppend(points, point)
                   /\ collections' =
                        IF Rejects(collections, collection_name, <<point>>)
                        THEN collections
                        ELSE Commit(collections, collection_name, <<point>>, {1})
                   /\ k' = k + 1
                   /\ pc' = "loop"
                   /\ UNCHANGED exc
    /\ UNCHANGED <<last, uuids, data, collection_name, text_id,
                   summary_vector, sent, operation_info, printed, hist,
                   diag>>

\* chunk_vector = get_text_embedding(chunk); vector_dict, payload, PointStruct,
\* points.append(point)
EmbedChunk ==
    /\ pc = "embed_chunk"
    /\ \E answer \in {"ok"} \cup ProviderErrors :
        LET chunk == ItemGet(data[k], "chunk")
            r == get_text_embedding(chunk, answer)
        IN /\ calls' = Append(calls, chunk)
           /\ provider_error' = IF answer = "ok" THEN provider_error ELSE answer
           /\ IF r.raised
              THEN /\ \E e \in r.errors : exc' = e
                   /\ pc' = "raised"
                   /\ UNCHANGED <<points, k>>
              ELSE /\ points' = PointsAppend(points,
                            PointStruct(text_id,
                                        VectorDict(summary_vector, r.value),
                                        Payload(text_id, data[k])))
                   /\ k' = k + 1
                   /\ pc' = "loop"
                   /\ UNCHANGED exc
    /\ UNCHANGED <<collections, last, uuids, data, collection_name, text_id,
                   summary_vector, sent, operation_info, printed, hist,
                   diag>>

\* a request that does not wait for the write to be applied
UpsertRequestNoWait(name, batch) ==
    [collection_name |-> name, wait |-> FALSE, points |-> batch]

\* the request of qdrant_client.upsert(collection_name, wait=True, points)
UpsertRequest(name, batch) ==
    [collection_name |-> name, wait |-> TRUE, points |-> batch]

\* an upsert wrapped in a handler that absorbs what the call raises and prints
\* the failure message
UpsertAbsorbsError ==
    /\ pc = "loop"
    /\ k > Len(data)
    /\ sent' = Append(sent, UpsertRequest(collection_name, points))
    /\ IF Rejects(collections, collection_name, points)
       THEN /\ pc' = "done"
            /\ printed' = Append(printed, FailureMessage)
            /\ UNCHANGED <<collections, operation_info, exc>>
       ELSE \E S \in SUBSET (1..Len(points)) :
            /\ collections' = Commit(collections, collection_name, points, S)
            /\ \/ /\ S = 1..Len(points)
                  /\ operation_info' = "COMPLETED"
                  /\ pc' = "check"
                  /\ UNCHANGED <<exc, printed>>
               \/ /\ operation_info' = "ACKNOWLEDGED"
                  /\ pc' = "check"
                  /\ UNCHANGED <<exc, printed>>
               \/ /\ pc' = "done"
                  /\ printed' = Append(printed, FailureMessage)
                  /\ UNCHANGED <<operation_info, exc>>
    /\ UNCHANGED <<last, uuids, data, collection_name, k, text_id,
                   summary_vector, points, calls, provider_error, hist, diag>>

\* operation_info = qdrant_client.upsert(...): one blocking request with the
\* whole list.  The service rejects a request to a collection that does not
\* exist or with a point it does not accept; otherwise it answers COMPLETED
\* with the batch committed, which it does for a request that waits, or it
\* answers another status or the call raises, with zero or some of the batch
\* committed.
Upsert ==
    /\ pc = "loop"
    /\ k > Len(data)
    /\ sent' = Append(sent, UpsertRequest(collection_name, points))
    /\ IF Rejects(collections, collection_name, points)
       THEN /\ pc' = "raised"
            /\ exc' = "UnexpectedResponse"
            /\ UNCHANGED <<collections, operation_info>>
       ELSE \E S \in SUBSET (1..Len(points)) :
            /\ collections' = Commit(collections, collection_name, points, S)
            /\ \/ /\ S = 1..Len(points)
                  /\ UpsertRequest(collection_name, points).wait
                  /\ operation_info' = "COMPLETED"
                  /\ pc' = "check"
                  /\ UNCHANGED exc
               \/ /\ operation_info' = "ACKNOWLEDGED"
                  /\ pc' = "check"
                  /\ UNCHANGED exc
               \/ /\ pc' = "raised"
                  /\ exc' = "ResponseHandlingException"
                  /\ UNCHANGED operation_info
    /\ UNCHANGED <<last, uuids, data, collection_name, k, text_id,
                   summary_vector, points, calls, provider_error, printed, hist,
                   diag>>

\* a check whose failure print does not stand under else
CheckStatusPrintsBoth ==
    /\ pc = "check"
    /\ printed' = IF operation_info = "COMPLETED"
                  THEN printed \o <<SuccessMessage, FailureMessage>>
                  ELSE Append(printed, FailureMessage)
    /\ pc' = "done"
    /\ UNCHANGED <<collections, last, uuids, data, collection_name, k, text_id,
                   summary_vector, points, calls, provider_error, sent,
                   operation_info, exc, hist, diag>>

\* if operation_info.status == UpdateStatus.COMPLETED: print(...) else: print(...)
CheckStatus ==
    /\ pc = "check"
    /\ printed' = Append(printed, StatusMessage(operation_info))
    /\ pc' = "done"
    /\ UNCHANGED <<collections, last, uuids, data, collection_name, k, text_id,
                   summary_vector, points, calls, provider_error, sent,
                   operation_info, exc, hist,
                   diag>>

Next ==
    \/ \E name \in CollectionNames : CreateCollection(name)
    \/ \E name \in CollectionNames : DeleteCollection(name)
    \/ \E d \in DataLists : AddDataCall(d)
    \/ ForItem
    \/ EmbedSummary
    \/ EmbedChunk
    \/ Upsert
    \/ CheckStatus

Spec == Init /\ [][Next]_vars

-----------------------------------------------------------------------------
(* The Writer alone: upsert(collection, points, wait) on any collection state *)

WriterRows == {RowA}

\* a complete point with the given identifier, as the Point Builder builds it
WriterPoint(id, row) ==
    PointStruct(id,
                VectorDict(ProviderEmbedding(ItemGet(row, "summary"), DefaultModel),
                           ProviderEmbedding(ItemGet(row, "chunk"), DefaultModel)),
                Payload(id, row))

\* a point with the given identifier whose payload has the identifier alone
WriterPointBare(id) ==
    PointStruct(id,
                VectorDict(ProviderEmbedding(NoneValue, DefaultModel),
                           ProviderEmbedding(NoneValue, DefaultModel)),
                [text_id |-> id])

WriterPoints ==
    {WriterPoint(id, row) : id \in 1..MaxWriterIds, row \in WriterRows}
        \cup {WriterPointBare(id) : id \in 1..MaxWriterIds}

WriterBatches == UNION {[1..n -> WriterPoints] : n \in 1..MaxWriterBatch}

\* the stored points a collection can hold: one point per identifier
WriterStores ==
    UNION {{f \in [I -> WriterPoints] : \A id \in I : f[id].id = id} :
            I \in SUBSET (1..MaxWriterIds)}

InitWriter ==
    /\ collections \in
         {[n \in {DefaultCollection} |->
              [vectors_config |-> VectorsConfig(DefaultCollection), points |-> f]] :
            f \in WriterStores}
    /\ last = NoCell
    /\ uuids = MaxWriterIds
    /\ pc = "idle"
    /\ data = <<>>
    /\ collection_name = DefaultCollection
    /\ k = 0
    /\ text_id = 0
    /\ summary_vector = NoVector
    /\ points = <<>>
    /\ calls = <<>>
    /\ provider_error = NoneValue
    /\ sent = <<>>
    /\ operation_info = NoneValue
    /\ printed = <<>>
    /\ exc = NoneValue
    /\ hist = NoHist
    /\ diag = NoDiag

\* qdrant_client.upsert(collection_name, wait=True, points=batch)
WriterUpsert(batch) ==
    /\ sent' = <<UpsertRequest(collection_name, batch)>>
    /\ points' = batch
    /\ hist' = [before |-> PointsCount(collection_name),
                base   |-> PointsCount(collection_name),
                rerun  |-> /\ sent = <<UpsertRequest(collection_name, batch)>>
                           /\ operation_info = "COMPLETED",
                retry  |-> FALSE,
                replaced |-> \E j \in 1..Len(batch) :
                               /\ collection_name \in GetCollections
                               /\ batch[j].id \in
                                     DOMAIN collections[collection_name].points
                               /\ collections[collection_name].points[batch[j].id]
                                     # batch[j]]
    /\ IF Rejects(collections, collection_name, batch)
       THEN /\ exc' = "UnexpectedResponse"
            /\ operation_info' = NoneValue
            /\ UNCHANGED collections
       ELSE \E S \in SUBSET (1..Len(batch)) :
            /\ collections' = Commit(collections, collection_name, batch, S)
            /\ \/ /\ S = 1..Len(batch)
                  /\ UpsertRequest(collection_name, batch).wait
                  /\ operation_info' = "COMPLETED"
                  /\ exc' = NoneValue
               \/ /\ operation_info' = "ACKNOWLEDGED"
                  /\ exc' = NoneValue
               \/ /\ operation_info' = NoneValue
                  /\ exc' = "ResponseHandlingException"
    /\ last' = NoCell
    /\ diag' = NoDiag
    /\ UNCHANGED <<uuids, pc, data, collection_name, k, text_id,
                   summary_vector, calls, provider_error, printed>>

NextWriter ==
    \/ \E batch \in WriterBatches : WriterUpsert(batch)
    \/ CreateCollection(DefaultCollection)
    \/ DeleteCollection(DefaultCollection)

SpecWriter == InitWriter /\ [][NextWriter]_vars

-----------------------------------------------------------------------------
(* The notebook's cells in the order of the notebook, top to bottom, and
   again from the top once add_data_to_collection has returned or raised *)

\* q_client.create_collection(collection_name="p_rag_series_1", ...)
NbCreateFirst ==
    /\ last = NoCell
    /\ CreateCollection("p_rag_series_1")

\* q_client.delete_collection(collection_name="p_rag_series_1")
NbDeleteFirst ==
    /\ last.op = "create_collection"
    /\ last.name = "p_rag_series_1"
    /\ DeleteCollection("p_rag_series_1")

\* q_client.create_collection(collection_name="arxiv_chunks", ...)
NbCreateArxiv ==
    /\ last.op = "delete_collection"
    /\ CreateCollection("arxiv_chunks")

\* add_data_to_collection(sampled_dataset)
NbAddData ==
    /\ last.op = "create_collection"
    /\ last.name = "arxiv_chunks"
    /\ \E d \in DataLists : AddDataCall(d)

NextNotebook ==
    \/ NbCreateFirst
    \/ NbDeleteFirst
    \/ NbCreateArxiv
    \/ NbAddData
    \/ ForItem
    \/ EmbedSummary
    \/ EmbedChunk
    \/ Upsert
    \/ CheckStatus

SpecNotebook == Init /\ [][NextNotebook]_vars

-----------------------------------------------------------------------------
(* The diagnostic cells of the second notebook: token counts and the length
   of an embedding, next to add_data_to_collection *)

\* a token count cell that also asks the provider for the text's embedding
NumTokensCellEmbeds(text) ==
    /\ diag' = [op |-> "num_tokens_from_string", text |-> text,
                tokens |-> num_tokens_from_string(text), len |-> 0,
                raised |-> FALSE]
    /\ calls' = Append(calls, text)
    /\ last' = NoCell
    /\ UNCHANGED <<collections, uuids, pc, data, collection_name, k, text_id,
                   summary_vector, points, provider_error, sent,
                   operation_info, printed, exc, hist>>

\* the cell num_tokens_from_string(text); it may run at any moment, also
\* between two steps of add_data_to_collection
NumTokensCell(text) ==
    /\ diag' = [op |-> "num_tokens_from_string", text |-> text,
                tokens |-> num_tokens_from_string(text), len |-> 0,
                raised |-> FALSE]
    /\ last' = NoCell
    /\ UNCHANGED <<collections, uuids, pipeline>>

\* the cell from_text_to_tokens(text): prints the text, its tokens and their
\* subwords, and returns None
FromTextToTokensCell(text) ==
    /\ diag' = [op |-> "from_text_to_tokens", text |-> text,
                tokens |-> Cl100kBaseLen(text), len |-> 0, raised |-> FALSE]
    /\ last' = NoCell
    /\ UNCHANGED <<collections, uuids, pipeline>>

\* the cell that prints num_tokens_from_string(text), embeds the text and
\* prints len(vector)
LengthCheckCell(text) ==
    /\ KernelIdle
    /\ \E answer \in {"ok"} \cup ProviderErrors :
          LET r == get_text_embedding(text, answer)
          IN diag' = [op |-> "length_check", text |-> text,
                      tokens |-> num_tokens_from_string(text),
                      len |-> r.value.len, raised |-> r.raised]
    /\ last' = NoCell
    /\ UNCHANGED <<collections, uuids, pipeline>>

DiagData == {<<RowA>>, <<RowA, RowB>>}

NextDiag ==
    \/ CreateCollection(DefaultCollection)
    \/ \E d \in DiagData : AddDataCall(d)
    \/ ForItem
    \/ EmbedSummary
    \/ EmbedChunk
    \/ Upsert
    \/ CheckStatus
    \/ \E text \in DiagTexts : NumTokensCell(text)
    \/ \E text \in DiagTexts : FromTextToTokensCell(text)
    \/ \E text \in DiagTexts : LengthCheckCell(text)

SpecDiag == Init /\ [][NextDiag]_vars

-----------------------------------------------------------------------------
(* Properties *)

\* C1: every point of every upsert request that add_data_to_collection issues
\* carries an embedding for each vector slot the target collection declares
\* ("summary" and "chunk"), and no request is issued once an embedding failed
C1_EveryPointHasAllSlots ==
    /\ \A q \in 1..Len(sent) : \A j \in 1..Len(sent[q].points) :
          LET p == sent[q].points[j]
          IN /\ DOMAIN p.vector = DOMAIN VectorsConfig(sent[q].collection_name)
             /\ DOMAIN p.vector = {"summary", "chunk"}
             /\ \A s \in DOMAIN p.vector : p.vector[s] # NoVector
    /\ provider_error # NoneValue => sent = <<>>

\* a request with two points was issued, one of them built from a row that
\* lacks a field
C1_Witness ==
    /\ Len(sent) = 1
    /\ Len(sent[1].points) = 2
    /\ \E r \in 1..Len(data) : ~(RequiredFields \subseteq DOMAIN data[r])

\* C2: a failure of the embedding provider is not swallowed: the invocation
\* ends with an exception leaving add_data_to_collection and prints neither
\* message
C2_ProviderFailurePropagates ==
    provider_error # NoneValue =>
        /\ pc = "raised"
        /\ exc # NoneValue
        /\ printed = <<>>

\* the provider was rate limited while the second record was being embedded
C2_Witness ==
    /\ provider_error = "RateLimited"
    /\ pc = "raised"
    /\ k = 2

\* C3: for a record that lacks a required field the builder signals
\* MissingField, and no point built from that record reaches the Writer
C3_MissingFieldSignalled ==
    \A r \in 1..Len(data) :
        ~(RequiredFields \subseteq DOMAIN data[r]) =>
            /\ Len(points) < r
            /\ (pc = "raised" /\ k = r) => exc = "MissingField"
            /\ \A q \in 1..Len(sent) : Len(sent[q].points) < r

\* C4: when the service answers the upsert with a status other than COMPLETED
\* the invocation prints the failure message, and the success message is
\* printed only for COMPLETED
C4_SoftFailureReported ==
    /\ (pc = "done" /\ operation_info # "COMPLETED") => printed = <<FailureMessage>>
    /\ (\E j \in 1..Len(printed) : printed[j] = SuccessMessage) =>
            operation_info = "COMPLETED"

\* the upsert returned ACKNOWLEDGED and the invocation has ended
C4_Witness ==
    /\ pc = "done"
    /\ operation_info = "ACKNOWLEDGED"
    /\ Len(data) > 0

\* C5: a second, acknowledged run of add_data_to_collection on the records of
\* the acknowledged run before it leaves the point count as it was
C5_RerunKeepsCount ==
    (pc = "done" /\ operation_info = "COMPLETED" /\ hist.rerun) =>
        PointsCount(collection_name) = hist.before

\* C6: an acknowledged upsert of the batch that the acknowledged upsert before
\* it wrote leaves the collection, its points and its point count, unchanged
C6_UpsertIdempotent ==
    [][(/\ sent # <<>>
        /\ sent' = sent
        /\ operation_info = "COMPLETED"
        /\ operation_info' = "COMPLETED")
       => /\ collections' = collections
          /\ PointsCount(collection_name)' = PointsCount(collection_name)]_vars

\* the same point was upserted twice, acknowledged twice, into a collection
\* that holds another point as well
C6_Witness ==
    /\ hist.rerun
    /\ operation_info = "COMPLETED"
    /\ PointsCount(collection_name) = 2

\* C7: once a batch whose write failed is run again through the pipeline and
\* acknowledged, the collection holds one point per record of the batch on top
\* of what it held before the first attempt
C7_RetryLeavesOnePointPerRecord ==
    (pc = "done" /\ operation_info = "COMPLETED" /\ hist.retry) =>
        PointsCount(collection_name) = hist.base + Len(data)

\* C8: an acknowledged run on N records that started on an empty collection
\* leaves points_count = N
C8_EndToEndCount ==
    (pc = "done" /\ operation_info = "COMPLETED" /\ hist.before = 0) =>
        GetCollection(collection_name).points_count = Len(data)

\* two records with different texts were ingested into the empty collection
C8_Witness ==
    /\ pc = "done"
    /\ operation_info = "COMPLETED"
    /\ hist.before = 0
    /\ Len(data) = 2
    /\ data[1].chunk # data[2].chunk

\* C9: a created collection is listed, a deleted one is not; a name enters the
\* list only by its creation, as an empty collection, and leaves it only by
\* its deletion
C9_CollectionLifecycle ==
    /\ [](/\ (last.op = "create_collection" /\ last.out = "True") =>
                last.name \in GetCollections
          /\ last.op = "delete_collection" => last.name \notin GetCollections)
    /\ [][\A name \in CollectionNames :
            /\ (name \in GetCollections /\ name \notin GetCollections') =>
                    /\ last'.op = "delete_collection"
                    /\ last'.name = name
            /\ (name \notin GetCollections /\ name \in GetCollections') =>
                    /\ last'.op = "create_collection"
                    /\ last'.name = name
                    /\ last'.out = "True"
                    /\ collections'[name].points = NoPoints]_vars

\* arxiv_chunks was deleted while it held points
C9_Witness ==
    /\ last.op = "delete_collection"
    /\ last.name = "arxiv_chunks"
    /\ last.held = 2
    /\ "arxiv_chunks" \notin GetCollections

\* C10: while arxiv_chunks exists its descriptor reports the slots "chunk" and
\* "summary", each of size 3072 with cosine distance, whatever was upserted
C10_SlotsOfArxivChunks ==
    "arxiv_chunks" \in GetCollections =>
        LET d == GetCollection("arxiv_chunks")
        IN /\ DOMAIN d.vectors = {"chunk", "summary"}
           /\ \A s \in DOMAIN d.vectors :
                /\ d.vectors[s].size = 3072
                /\ d.vectors[s].distance = "Cosine"

\* arxiv_chunks holds points of an acknowledged upsert
C10_Witness ==
    /\ "arxiv_chunks" \in GetCollections
    /\ pc = "done"
    /\ operation_info = "COMPLETED"
    /\ GetCollection("arxiv_chunks").points_count = 2

\* C11: every vector that add_data_to_collection puts under a slot name, in
\* a point it builds or sends, has the length the target collection declares
\* for that slot, which is 3072 for "summary" and for "chunk"
C11_VectorLengthMatchesSlot ==
    /\ \A j \in 1..Len(points) : \A s \in DOMAIN points[j].vector :
          /\ s \in DOMAIN VectorsConfig(collection_name)
          /\ points[j].vector[s].len = VectorsConfig(collection_name)[s].size
    /\ \A q \in 1..Len(sent) : \A j \in 1..Len(sent[q].points) :
          \A s \in DOMAIN sent[q].points[j].vector :
             /\ sent[q].points[j].vector[s].len =
                   VectorsConfig(sent[q].collection_name)[s].size
             /\ sent[q].points[j].vector[s].len = 3072

\* the collection holds two points that the pipeline wrote, each with a
\* vector in both slots
C11_Witness ==
    /\ DefaultCollection \in GetCollections
    /\ operation_info = "COMPLETED"
    /\ Len(sent) = 1
    /\ Len(sent[1].points) = 2
    /\ \A j \in 1..2 :
          /\ sent[1].points[j].id \in DOMAIN collections[DefaultCollection].points
          /\ DOMAIN sent[1].points[j].vector = {"summary", "chunk"}

C14_PayloadIsRecordPlusId ==
    \A j \in 1..Len(points) :
        /\ DOMAIN points[j].payload = {"text_id"} \cup DOMAIN data[j]
        /\ \A f \in DOMAIN data[j] : points[j].payload[f] = data[j][f]

\* C14: the payload of every point has exactly the keys text_id, title,
\* source, authors, chunk and summary; text_id is the generated identifier
\* and each other key has the record's value for it, unmodified, or None
\* where the record has no such key; no other column of the record is copied
C14_PayloadSixKeys ==
    \A j \in 1..Len(points) :
        /\ DOMAIN points[j].payload = {"text_id"} \cup RequiredFields
        /\ points[j].payload.text_id = points[j].id
        /\ \A f \in RequiredFields :
              points[j].payload[f] =
                 IF f \in DOMAIN data[j] THEN data[j][f] ELSE NoneValue

\* two points were built and sent, one from a record with a column the
\* payload does not have and one from a record that lacks a payload key
C14_Witness ==
    /\ Len(sent) = 1
    /\ Len(points) = 2
    /\ sent[1].points = points
    /\ \E j \in 1..2 : DOMAIN data[j] \ DOMAIN points[j].payload # {}
    /\ \E j \in 1..2 : "title" \notin DOMAIN data[j]

\* C15: in every point built, the payload's text_id is the point's own id,
\* the payload's summary and chunk are the very texts that were handed to
\* get_text_embedding for the point's summary and chunk vectors, and the
\* payload's title, source and authors are the record's values
C15_PayloadConsistentWithPoint ==
    /\ \A j \in 1..Len(points) :
          LET p == points[j]
          IN /\ p.payload.text_id = p.id
             /\ p.payload.summary = p.vector.summary.input
             /\ p.payload.chunk = p.vector.chunk.input
             /\ p.payload.summary = calls[2 * j - 1]
             /\ p.payload.chunk = calls[2 * j]
             /\ p.payload.title = ItemGet(data[j], "title")
             /\ p.payload.source = ItemGet(data[j], "source")
             /\ p.payload.authors = ItemGet(data[j], "authors")
    /\ \A q \in 1..Len(sent) : \A j \in 1..Len(sent[q].points) :
          LET p == sent[q].points[j]
          IN /\ p.payload.text_id = p.id
             /\ p.payload.summary = p.vector.summary.input
             /\ p.payload.chunk = p.vector.chunk.input

\* two points with different texts were built, sent and stored
C15_Witness ==
    /\ Len(sent) = 1
    /\ Len(sent[1].points) = 2
    /\ sent[1].points[1].payload.chunk # sent[1].points[2].payload.chunk
    /\ sent[1].points[1].payload.summary # sent[1].points[1].payload.chunk
    /\ operation_info = "COMPLETED"
    /\ PointsCount(DefaultCollection) >= 2

\* C16: the identifier drawn for a record differs from the identifier of
\* every other record of the batch and of every point that earlier calls
\* stored, also for records of identical content; so until the batch is
\* sent no stored point has the id of a point of the batch
C16_IdentifiersUnique ==
    /\ \A i, j \in 1..Len(points) : i # j => points[i].id # points[j].id
    /\ pc \in {"embed_summary", "embed_chunk"} =>
          /\ text_id \notin BatchIds(points)
          /\ \A name \in GetCollections :
                text_id \notin DOMAIN collections[name].points
    /\ sent = <<>> =>
          \A name \in GetCollections :
             BatchIds(points) \cap DOMAIN collections[name].points = {}
    /\ \A q \in 1..Len(sent) :
          Cardinality(BatchIds(sent[q].points)) = Len(sent[q].points)

\* a batch of two records of identical content was stored next to the point
\* of an earlier call, as three points
C16_Witness ==
    /\ Len(data) = 2
    /\ data[1] = data[2]
    /\ operation_info = "COMPLETED"
    /\ hist.before = 1
    /\ PointsCount(DefaultCollection) = 3

\* C17: an acknowledged upsert replaces: afterwards the point stored under
\* each id of the batch is exactly the batch's (last) point with that id,
\* vectors and payload, with no key of the point stored before, and every
\* other stored point is as it was
C17_UpsertReplaces ==
    [][(/\ operation_info' = "COMPLETED"
        /\ Len(sent') = 1
        /\ sent'[1].collection_name \in GetCollections)
       => LET b == sent'[1].points
              old == collections[sent'[1].collection_name].points
              new == collections'[sent'[1].collection_name].points
          IN /\ DOMAIN new = DOMAIN old \cup BatchIds(b)
             /\ \A j \in 1..Len(b) :
                   (\A m \in (j+1)..Len(b) : b[m].id # b[j].id)
                   => /\ new[b[j].id].vector = b[j].vector
                      /\ new[b[j].id].payload = b[j].payload
                      /\ DOMAIN new[b[j].id].payload = DOMAIN b[j].payload
             /\ \A id \in DOMAIN old \ BatchIds(b) : new[id] = old[id]]_vars

\* a point with the identifier alone in its payload replaced a stored point
\* of the same id with another payload, next to a second stored point
C17_Witness ==
    /\ operation_info = "COMPLETED"
    /\ hist.replaced
    /\ hist.before = 2
    /\ PointsCount(DefaultCollection) = 2
    /\ Len(sent) = 1
    /\ DOMAIN sent[1].points[1].payload = {"text_id"}
    /\ collections[DefaultCollection].points[sent[1].points[1].id]
          = sent[1].points[1]

\* C18: on every collection state, two points with distinct ids upserted in
\* either order, in one batch or in two requests, leave the same stored
\* points, which hold both of them
C18_UpsertCommutes ==
    DefaultCollection \in GetCollections =>
       LET st == collections[DefaultCollection].points
       IN \A p, q \in WriterPoints :
             p.id # q.id =>
                LET both == UpsertPoints(st, <<p, q>>)
                IN /\ UpsertPoints(st, <<q, p>>) = both
                   /\ UpsertPoints(UpsertPoints(st, <<p>>), <<q>>) = both
                   /\ UpsertPoints(UpsertPoints(st, <<q>>), <<p>>) = both
                   /\ both[p.id] = p
                   /\ both[q.id] = q

\* an acknowledged request wrote a point to a collection that held one point,
\* with another id, and the collection holds both
C18_Witness ==
    /\ operation_info = "COMPLETED"
    /\ Len(sent) = 1
    /\ hist.before = 1
    /\ ~hist.replaced
    /\ PointsCount(DefaultCollection) = 2
    /\ \A id \in DOMAIN collections[DefaultCollection].points :
          collections[DefaultCollection].points[id] \in WriterPoints

\* C19: every upsert request of add_data_to_collection has wait enabled, and
\* "Data inserted successfully!" is printed only after the one request was
\* answered COMPLETED with every point of the batch stored as sent
C19_SynchronousWrite ==
    /\ \A q \in 1..Len(sent) : sent[q].wait = TRUE
    /\ printed # <<>> => Len(sent) = 1
    /\ \A m \in 1..Len(printed) :
          printed[m] = SuccessMessage =>
             /\ operation_info = "COMPLETED"
             /\ sent[1].collection_name \in GetCollections
             /\ \A j \in 1..Len(sent[1].points) :
                   LET p == sent[1].points[j]
                       stored == collections[sent[1].collection_name].points
                   IN /\ p.id \in DOMAIN stored
                      /\ stored[p.id] = p

\* success was reported for a batch of two points
C19_Witness ==
    /\ printed = <<SuccessMessage>>
    /\ Len(sent) = 1
    /\ sent[1].wait
    /\ Len(sent[1].points) = 2
    /\ PointsCount(sent[1].collection_name) >= 2

\* C20: an invocation issues at most one upsert request, and exactly one
\* once it is past the write step; the request holds the whole list built,
\* one point per input record, the j-th point built from the j-th record,
\* with identifiers in the order of their generation
C20_OneRequestInInputOrder ==
    /\ Len(sent) <= 1
    /\ pc \in {"check", "done"} => Len(sent) = 1
    /\ \A q \in 1..Len(sent) :
          LET b == sent[q].points
          IN /\ b = points
             /\ Len(b) = Len(data)
             /\ \A j \in 1..Len(b) :
                   /\ b[j].payload.chunk = ItemGet(data[j], "chunk")
                   /\ b[j].payload.summary = ItemGet(data[j], "summary")
                   /\ b[j].payload.title = ItemGet(data[j], "title")
                   /\ b[j].payload.source = ItemGet(data[j], "source")
                   /\ b[j].vector.chunk.input = ItemGet(data[j], "chunk")
                   /\ b[j].vector.summary.input = ItemGet(data[j], "summary")
             /\ \A i, j \in 1..Len(b) : i < j => b[i].id < b[j].id

\* one request with two points built from two different records was sent
\* and answered
C20_Witness ==
    /\ pc = "done"
    /\ Len(sent) = 1
    /\ Len(data) = 2
    /\ data[1] # data[2]
    /\ Len(sent[1].points) = 2

\* C21: while add_data_to_collection builds points, and when it is aborted
\* by a failed embedding call, every collection is exactly as it was before
\* the call: no upsert request was issued and no point of the batch is
\* stored, also not the points of earlier records that were fully built
C21_AbortLeavesCollection ==
    /\ [](provider_error # NoneValue =>
             /\ pc = "raised"
             /\ sent = <<>>
             /\ PointsCount(collection_name) = hist.before
             /\ \A name \in GetCollections :
                   BatchIds(points) \cap DOMAIN collections[name].points = {})
    /\ [][(\/ pc' \in {"loop", "embed_summary", "embed_chunk"}
            \/ (pc' = "raised" /\ sent' = <<>>))
           => collections' = collections]_vars

\* the embedding of the second record failed after the first record's point
\* was fully built, with a point of an earlier call in the collection
C21_Witness ==
    /\ pc = "raised"
    /\ provider_error # NoneValue
    /\ Len(data) = 2
    /\ Len(points) = 1
    /\ hist.before = 1
    /\ PointsCount(DefaultCollection) = 1

\* C22: get_text_embedding with its model, whenever it returns, returns a
\* vector of the model's 3072 entries: for the text of 59 tokens, for the
\* text of 23 tokens and for every text add_data_to_collection embeds
C22_LengthInvariance ==
    /\ (diag.op = "length_check" /\ ~diag.raised) =>
          /\ diag.len = EmbeddingDim
          /\ diag.len = 3072
    /\ \A text \in DiagTexts :
          /\ ~get_text_embedding(text, "ok").raised
          /\ get_text_embedding(text, "ok").value.len = EmbeddingDim
    /\ \E t1, t2 \in DiagTexts :
          num_tokens_from_string(t1) # num_tokens_from_string(t2)
    /\ summary_vector # NoVector => summary_vector.len = EmbeddingDim
    /\ \A j \in 1..Len(points) : \A slot \in DOMAIN points[j].vector :
          points[j].vector[slot].len = EmbeddingDim

\* the length check cell ran on the text of 23 tokens and printed 3072,
\* after add_data_to_collection had embedded other texts
C22_Witness ==
    /\ diag.op = "length_check"
    /\ ~diag.raised
    /\ diag.tokens = MoreExampleTokens
    /\ diag.tokens # ExampleTokens
    /\ diag.len = EmbeddingDim
    /\ Len(points) = 2

\* C23: when the upsert call raises, for a rejected request or for a failure
\* of the transport, add_data_to_collection ends with that exception, at the
\* step of the request, and has printed neither message
C23_UpsertErrorSurfaces ==
    /\ [](/\ exc \in {"UnexpectedResponse", "ResponseHandlingException"} =>
               /\ pc = "raised"
               /\ Len(sent) = 1
               /\ printed = <<>>
          /\ (pc = "raised" /\ sent # <<>>) =>
               exc \in {"UnexpectedResponse", "ResponseHandlingException"})
    /\ [][(Len(sent') > Len(sent) /\ pc' # "check") =>
             /\ pc' = "raised"
             /\ exc' \in {"UnexpectedResponse", "ResponseHandlingException"}
             /\ printed' = <<>>]_vars

\* the upsert of a batch of two points raised with one of them committed
C23_Witness ==
    /\ pc = "raised"
    /\ exc = "ResponseHandlingException"
    /\ Len(sent) = 1
    /\ Len(sent[1].points) = 2
    /\ PointsCount(DefaultCollection) = hist.before + 1
    /\ printed = <<>>

\* C24: from the call of add_data_to_collection until it has returned or
\* raised, no step changes the input list: its length, its order and the
\* keys and values of every record stay as passed
C24_InputUnchanged ==
    [][(pc \in {"loop", "embed_summary", "embed_chunk", "check"}) =>
          /\ data' = data
          /\ Len(data') = Len(data)
          /\ \A j \in 1..Len(data) :
                /\ DOMAIN data'[j] = DOMAIN data[j]
                /\ \A f \in DOMAIN data[j] : data'[j][f] = data[j][f]]_vars

\* the call returned for a list of a complete record and a record without
\* title, which the list still holds as passed
C24_Witness ==
    /\ pc = "done"
    /\ data = <<RowA, RowNoTitle>>
    /\ Len(points) = 2
    /\ points[2].payload.title = NoneValue
    /\ "title" \notin DOMAIN data[2]

\* C25: get_text_embedding is called for the records in input order, for
\* each record with its summary and then with its chunk, the next record
\* only after the point of the one before is built; once the upsert request
\* is issued there were exactly two calls per record and none follows
C25_EmbedderCallOrder ==
    /\ [](/\ Len(calls) <= 2 * Len(data)
          /\ \A j \in 1..Len(data) :
                /\ 2 * j - 1 <= Len(calls) =>
                      calls[2 * j - 1] = ItemGet(data[j], "summary")
                /\ 2 * j <= Len(calls) =>
                      calls[2 * j] = ItemGet(data[j], "chunk")
          /\ provider_error = NoneValue =>
                /\ 2 * Len(points) <= Len(calls)
                /\ Len(calls) <= 2 * Len(points) + 1
          /\ sent # <<>> => Len(calls) = 2 * Len(data))
    /\ [][(sent # <<>> /\ sent' # <<>>) => calls' = calls]_vars

\* a run over two different records without failure made four calls and
\* then issued its request
C25_Witness ==
    /\ Len(data) = 2
    /\ data[1] # data[2]
    /\ Len(calls) = 4
    /\ Len(sent) = 1
    /\ provider_error = NoneValue
    /\ operation_info = "COMPLETED"

\* C26: every upsert request of add_data_to_collection carries at least one
\* point; for an empty input list no request is sent
C26_NoEmptyRequest ==
    /\ \A q \in 1..Len(sent) : Len(sent[q].points) >= 1
    /\ (data = <<>> /\ pc \in {"loop", "check", "done", "raised"}) => sent = <<>>

\* C27: an invocation whose upsert call returned prints exactly one message,
\* as its next step: the success message if and only if the returned status
\* is COMPLETED, the failure message for every other status; nothing is
\* printed before the call has returned, and never both messages
C27_ExactlyOneMessage ==
    /\ [](/\ Len(printed) <= 1
          /\ printed # <<>> =>
                /\ pc = "done"
                /\ Len(sent) = 1
                /\ operation_info # NoneValue
          /\ pc = "done" =>
                /\ Len(printed) = 1
                /\ (printed[1] = SuccessMessage) <=> (operation_info = "COMPLETED")
                /\ (printed[1] = FailureMessage) <=> (operation_info # "COMPLETED")
          /\ pc = "check" => (printed = <<>> /\ operation_info # NoneValue))
    /\ [][(pc = "check") => (pc' = "done" /\ Len(printed') = 1)]_vars

\* the upsert of two points returned a status other than COMPLETED and the
\* failure message alone was printed
C27_Witness ==
    /\ pc = "done"
    /\ operation_info = "ACKNOWLEDGED"
    /\ printed = <<FailureMessage>>
    /\ Len(sent) = 1
    /\ Len(sent[1].points) = 2

\* C28: the collection p_rag_series_1 of the first notebook is declared with
\* the size of text-embedding-3-large, 3072, and with cosine distance
C28_FirstCollectionSize ==
    "p_rag_series_1" \in GetCollections =>
       \A slot \in DOMAIN GetCollection("p_rag_series_1").vectors :
          /\ GetCollection("p_rag_series_1").vectors[slot].distance = "Cosine"
          /\ GetCollection("p_rag_series_1").vectors[slot].size = EmbeddingDim
          /\ GetCollection("p_rag_series_1").vectors[slot].size = 3072

\* C29: a call of num_tokens_from_string or of from_text_to_tokens, at any
\* moment before, between the steps of, or after add_data_to_collection,
\* hands no text to get_text_embedding, issues no upsert request and leaves
\* every collection, the points built so far and the rest of the
\* invocation's state as they were
C29_TokenUtilitiesOutsideWritePath ==
    [][(/\ diag'.op \in {"num_tokens_from_string", "from_text_to_tokens"}
        /\ (diag' # diag \/ last' # last))
       => /\ calls' = calls
          /\ sent' = sent
          /\ collections' = collections
          /\ points' = points
          /\ uuids' = uuids
          /\ pipeline' = pipeline
          /\ diag'.tokens = num_tokens_from_string(diag'.text)]_vars

\* from_text_to_tokens ran between the two embedding calls of the second
\* record, with a point of an earlier call stored and one point built
C29_Witness ==
    /\ diag.op = "from_text_to_tokens"
    /\ diag.tokens = ExampleTokens
    /\ pc = "embed_chunk"
    /\ Len(points) = 1
    /\ Len(calls) = 3
    /\ PointsCount(DefaultCollection) = 1

====
